---- MODULE Spec2Model ----
(***************************************************************************)
(* A model of PizzaHut-chatbot.py: the PizzaHutChatbot object, its data    *)
(* file, and the operations handle_query, learn_new_response,              *)
(* add_customer_order and add_feedback, with the string matching the       *)
(* resolver relies on (substring tests and difflib.get_close_matches).     *)
(* Strings are TLA+ strings; Len, \o and SubSeq act on them character by   *)
(* character.                                                              *)
(***************************************************************************)
EXTENDS Integers, Sequences, FiniteSets, TLC

VARIABLES pc, data, file, persisted, lastCall, response, failures

vars == <<pc, data, file, persisted, lastCall, response, failures>>

\* ------------------------------------------------------------------ bounds

MaxQuestions == 2
MaxOrders == 3
MaxFeedback == 1
MaxFailures == 2

\* ------------------------------------------------------------------ inputs

Inputs ==
    {"show pizza menu", "What pizza sides?", "pizza", "sides and drinks",
     "any drinks?", "drink delivery subang", "Deliver to KLCC",
     "deliver pj deal", "deliver to petaling", "deliver to ipoh",
     "delivery deal", "any deals?", "popular offer", "recommend",
     "Open hours", "phone hours", "call", "wifi", "wifu", "Wifi B",
     "wifi a", "hi", ""}

LearnInputs ==
    {<<"wifi a", "yes">>, <<"wifi a", "no">>, <<"Wifi b", "no">>,
     <<"open?", "yes">>}

OrderInputs ==
    {<<[name |-> "Ali", phone |-> "012"],
       <<[name |-> "Pepperoni", total |-> 25], [name |-> "Cola", total |-> 8]>>>>}

FeedbackInputs == {<<"ORD001", 5, "great">>}

KnownAreas == <<"klcc", "pj", "subang", "petaling">>

PromotionWords == {"deal", "promotion", "discount", "offer"}

\* Every literal handle_query looks for in the input.
Keywords ==
    {"pizza", "menu", "what", "side", "appetizer", "drink", "beverage",
     "deliver", "popular", "recommend", "hour", "open", "phone", "call"}
    \cup PromotionWords \cup {KnownAreas[i] : i \in 1..Len(KnownAreas)}

\* The area names of the delivery zones in the data files.
ZoneAreas == {"KLCC", "Petaling Jaya"}

\* ----------------------------------------------------------------- strings

\* The characters the model's strings are made of, in code point order.
Ascii == " !-?ABCDEFGHIJKLMNOPQRSTUVWXYZabcdefghijklmnopqrstuvwxyz"

UpperCase == "ABCDEFGHIJKLMNOPQRSTUVWXYZ"

LowerCase == "abcdefghijklmnopqrstuvwxyz"

\* s[i] of Python, i counted from 0.
Ch(s, i) == SubSeq(s, i + 1, i + 1)

Ord(c) == CHOOSE i \in 1..Len(Ascii) : SubSeq(Ascii, i, i) = c

LowerCh(c) ==
    IF \E i \in 1..Len(UpperCase) : SubSeq(UpperCase, i, i) = c
    THEN LET i == CHOOSE k \in 1..Len(UpperCase) : SubSeq(UpperCase, k, k) = c
         IN SubSeq(LowerCase, i, i)
    ELSE c

RECURSIVE Lower(_)
\* str.lower()
Lower(s) ==
    IF Len(s) = 0 THEN s
    ELSE LowerCh(SubSeq(s, 1, 1)) \o Lower(SubSeq(s, 2, Len(s)))

\* `k in s` of Python on strings: k is a substring of s.
Contains(s, k) ==
    \E i \in 1..(Len(s) - Len(k) + 1) : SubSeq(s, i, i + Len(k) - 1) = k

RECURSIVE StrLess(_, _)
\* s < t of Python on strings: lexicographic by code point, a proper prefix first.
StrLess(s, t) ==
    IF Len(t) = 0 THEN FALSE
    ELSE IF Len(s) = 0 THEN TRUE
    ELSE IF SubSeq(s, 1, 1) = SubSeq(t, 1, 1)
         THEN StrLess(SubSeq(s, 2, Len(s)), SubSeq(t, 2, Len(t)))
         ELSE Ord(SubSeq(s, 1, 1)) < Ord(SubSeq(t, 1, 1))

\* The strings the model lowercases, and their lowercase forms once and for all
\* (f @@ <<>> is f, held by TLC as a table instead of being recomputed).
Texts ==
    Inputs \cup {l[1] : l \in LearnInputs} \cup ZoneAreas \cup Keywords

LowerTable == [s \in Texts |-> Lower(s)] @@ <<>>

LowerOf(s) == LowerTable[s]

\* The substring tests the model makes, once and for all: for every lowercased
\* text, the keywords and lowercased area names it contains.
ContainsTable ==
    [s \in {LowerOf(t) : t \in Texts} |->
        {k \in {LowerOf(t) : t \in Keywords \cup ZoneAreas} : Contains(s, k)}] @@ <<>>

\* k in s
In(k, s) == k \in ContainsTable[s]

\* ----------------------------------------------------------------- difflib

Min(x, y) == IF x < y THEN x ELSE y

RECURSIVE RunLen(_, _, _, _, _, _)
\* The length of the common run of a and b that starts at a[i], b[j] and stays
\* below ahi, bhi.
RunLen(a, b, i, j, ahi, bhi) ==
    IF i < ahi /\ j < bhi /\ Ch(a, i) = Ch(b, j)
    THEN 1 + RunLen(a, b, i + 1, j + 1, ahi, bhi)
    ELSE 0

MaxOf(S) == CHOOSE k \in S : \A m \in S : m <= k

MinOf(S) == CHOOSE k \in S : \A m \in S : k <= m

\* Of the blocks of the given size, the one starting earliest in a, and of
\* those the one starting earliest in b.
EarliestIn(blocks, i, size) ==
    <<i, MinOf({p[2] : p \in {q \in blocks : q[1] = i}}), size>>

EarliestBlock(blocks, size) ==
    EarliestIn(blocks, MinOf({p[1] : p \in blocks}), size)

LongestBlock(sizes, best, alo, blo) ==
    IF best = 0 THEN <<alo, blo, 0>>
    ELSE EarliestBlock({p \in DOMAIN sizes : sizes[p] = best}, best)

\* SequenceMatcher.find_longest_match without junk: the longest matching block
\* of a[alo:ahi] and b[blo:bhi] as <<i, j, size>>; of the longest, the one
\* starting earliest in a, and of those the one starting earliest in b.
\* <<alo, blo, 0>> when nothing matches.
FindLongestMatch(a, b, alo, ahi, blo, bhi) ==
    LongestBlock([p \in (alo..(ahi - 1)) \X (blo..(bhi - 1)) |->
                     RunLen(a, b, p[1], p[2], ahi, bhi)],
                 MaxOf({0} \cup {RunLen(a, b, p[1], p[2], ahi, bhi) :
                                    p \in (alo..(ahi - 1)) \X (blo..(bhi - 1))}),
                 alo, blo)

RECURSIVE MatchingTotal(_, _, _, _, _, _)
RECURSIVE BlocksTotal(_, _, _, _, _, _, _)
\* The sum of the sizes of SequenceMatcher.get_matching_blocks: the longest
\* block m, then the same to its left and to its right.
BlocksTotal(a, b, alo, ahi, blo, bhi, m) ==
    IF m[3] = 0 THEN 0
    ELSE m[3]
         + (IF alo < m[1] /\ blo < m[2]
            THEN MatchingTotal(a, b, alo, m[1], blo, m[2]) ELSE 0)
         + (IF m[1] + m[3] < ahi /\ m[2] + m[3] < bhi
            THEN MatchingTotal(a, b, m[1] + m[3], ahi, m[2] + m[3], bhi) ELSE 0)

MatchingTotal(a, b, alo, ahi, blo, bhi) ==
    BlocksTotal(a, b, alo, ahi, blo, bhi,
                FindLongestMatch(a, b, alo, ahi, blo, bhi))

\* _calculate_ratio(matches, length) as the fraction <<numerator, denominator>>:
\* 2.0 * matches / length, and 1.0 when length is 0.
CalculateRatio(matches, length) ==
    IF length > 0 THEN <<2 * matches, length>> ELSE <<1, 1>>

\* SequenceMatcher(None, a, b).ratio()
Ratio(a, b) ==
    CalculateRatio(MatchingTotal(a, b, 0, Len(a), 0, Len(b)), Len(a) + Len(b))

\* The character of cs with the least code point.
MinChar(cs) == CHOOSE c \in cs : \A x \in cs : Ord(c) <= Ord(x)

Count(s, c) == Cardinality({i \in 0..(Len(s) - 1) : Ch(s, i) = c})

RECURSIVE SumMin(_, _, _)
\* How many characters of the set cs a and b share, as multisets.
SumMin(a, b, cs) ==
    IF cs = {} THEN 0
    ELSE Min(Count(a, MinChar(cs)), Count(b, MinChar(cs)))
         + SumMin(a, b, cs \ {MinChar(cs)})

\* SequenceMatcher.quick_ratio()
QuickRatio(a, b) ==
    CalculateRatio(SumMin(a, b, {Ch(a, i) : i \in 0..(Len(a) - 1)}),
                   Len(a) + Len(b))

\* SequenceMatcher.real_quick_ratio()
RealQuickRatio(a, b) == CalculateRatio(Min(Len(a), Len(b)), Len(a) + Len(b))

\* cutoff=0.6 of the get_close_matches call, in tenths.
CutoffTenths == 6

\* r1 < r2 and r1 = r2 for fractions with positive denominators
RatioLess(r1, r2) == r1[1] * r2[2] < r2[1] * r1[2]

RatioEq(r1, r2) == r1[1] * r2[2] = r2[1] * r1[2]

\* The questions a store can hold and the words they are matched against, and
\* the three ratios and the string order of each pair once and for all.
StoredTexts == {LowerOf(l[1]) : l \in LearnInputs}

QueryTexts == {LowerOf(t) : t \in Inputs \cup {l[1] : l \in LearnInputs}}

ScoreTable ==
    [p \in StoredTexts \X QueryTexts |->
        [real_quick_ratio |-> RealQuickRatio(p[1], p[2]),
         quick_ratio |-> QuickRatio(p[1], p[2]),
         ratio |-> Ratio(p[1], p[2])]] @@ <<>>

LessTable ==
    [p \in StoredTexts \X StoredTexts |-> StrLess(p[1], p[2])] @@ <<>>

\* A slip in the cutoff test: r > cutoff.
AboveCutoff(r) == 10 * r[1] > CutoffTenths * r[2]

\* r >= cutoff for a fraction r
AtLeastCutoff(r) == 10 * r[1] >= CutoffTenths * r[2]

\* The test of get_close_matches on one possibility x for the word.
ClearsCutoff(x, word) ==
    /\ AtLeastCutoff(ScoreTable[<<x, word>>].real_quick_ratio)
    /\ AtLeastCutoff(ScoreTable[<<x, word>>].quick_ratio)
    /\ AtLeastCutoff(ScoreTable[<<x, word>>].ratio)

\* (score1, x1) < (score2, x2) of Python on tuples
ScoredLess(x1, x2, word) ==
    \/ RatioLess(ScoreTable[<<x1, word>>].ratio, ScoreTable[<<x2, word>>].ratio)
    \/ /\ RatioEq(ScoreTable[<<x1, word>>].ratio, ScoreTable[<<x2, word>>].ratio)
       /\ LessTable[<<x1, x2>>]

\* A selection that keeps the first of the best-scoring possibilities in the
\* order of the list, whatever the strings are.
GetCloseMatchesFirst(word, possibilities) ==
    LET result == {i \in 1..Len(possibilities) :
                      ClearsCutoff(possibilities[i], word)}
    IN IF result = {} THEN <<>>
       ELSE <<possibilities[
                MinOf({i \in result :
                         \A k \in result :
                            ~RatioLess(ScoreTable[<<possibilities[i], word>>].ratio,
                                       ScoreTable[<<possibilities[k], word>>].ratio)})]>>

\* get_close_matches(word, possibilities, n=1, cutoff=0.6): the possibilities
\* that clear the cutoff, as (score, x) tuples, and heapq.nlargest(1, ...) of
\* them, which is their maximum as tuples. <<>> when none clears it.
GetCloseMatches(word, possibilities) ==
    LET result == {i \in 1..Len(possibilities) :
                      ClearsCutoff(possibilities[i], word)}
    IN IF result = {} THEN <<>>
       ELSE LET top == CHOOSE i \in result :
                          \A k \in result :
                             ~ScoredLess(possibilities[i], possibilities[k], word)
            IN <<possibilities[top]>>

\* ------------------------------------------------------------------- data

\* The dictionary create_default_data builds.
DefaultData ==
    [restaurant_info |->
        [name |-> "Pizza Hut", phone |-> "(123) 456-7890",
         hours |-> [monday |-> "11:00 AM - 11:00 PM"]],
     menu |-> [pizzas |-> <<>>, sides |-> <<>>, drinks |-> <<>>],
     delivery_zones |-> <<>>,
     promotions |-> <<>>,
     orders |-> <<>>,
     questions |-> <<>>,
     customer_feedback |-> <<>>,
     analytics |-> [popular_items |-> <<>>, peak_hours |-> <<>>,
                    busiest_days |-> <<>>],
     staff_notes |-> <<>>]

\* A stocked data file.
StockedData ==
    [restaurant_info |->
        [name |-> "Pizza Hut", phone |-> "03-1234",
         hours |-> [monday |-> "10 AM - 10 PM"]],
     menu |->
        [pizzas |-> <<[id |-> 1, name |-> "Pepperoni",
                       prices |-> [regular |-> 25, large |-> 35, family |-> 45],
                       description |-> "Beef pepperoni"],
                      [id |-> 2, name |-> "Margherita",
                       prices |-> [regular |-> 20, large |-> 30, family |-> 40],
                       description |-> "Tomato and cheese"]>>,
         sides |-> <<[id |-> 11, name |-> "Garlic Bread", price |-> 8,
                      description |-> "Four slices"]>>,
         drinks |-> <<>>],
     delivery_zones |->
        <<[area |-> "KLCC", delivery_fee |-> 0, min_order |-> 30,
           estimated_time |-> "30 min"],
          [area |-> "Petaling Jaya", delivery_fee |-> 5, min_order |-> 40,
           estimated_time |-> "45 min"]>>,
     promotions |->
        <<[title |-> "Lunch", description |-> "Set lunch", is_active |-> TRUE],
          [title |-> "Raya", description |-> "Festive set", is_active |-> FALSE],
          [title |-> "Old", description |-> "No flag"]>>,
     orders |-> <<>>,
     questions |-> <<>>,
     customer_feedback |-> <<>>,
     analytics |->
        [popular_items |-> <<[item_id |-> 2, order_count |-> 12],
                             [item_id |-> 9, order_count |-> 7],
                             [item_id |-> 1, order_count |-> 5],
                             [item_id |-> 11, order_count |-> 3]>>,
         peak_hours |-> <<>>, busiest_days |-> <<>>],
     staff_notes |-> <<>>]

\* A data file with nothing on sale, no opening hours for monday and no
\* staff_notes field.
SparseData ==
    [restaurant_info |->
        [name |-> "Pizza Hut", phone |-> "03-1234",
         hours |-> [sunday |-> "closed"]],
     menu |-> [pizzas |-> <<>>, sides |-> <<>>, drinks |-> <<>>],
     delivery_zones |-> <<>>,
     promotions |-> <<>>,
     orders |-> <<>>,
     questions |-> <<>>,
     customer_feedback |-> <<>>,
     analytics |-> [popular_items |-> <<>>, peak_hours |-> <<>>,
                    busiest_days |-> <<>>]]

\* What the data file may hold when the process starts: nothing, text that is
\* no JSON document, or a JSON document.
StartFiles ==
    {[kind |-> "absent"], [kind |-> "garbled"]}
    \cup {[kind |-> "json", value |-> v] :
            v \in {StockedData, SparseData}}

\* ------------------------------------------------------------- persistence

\* How a save_data call can end: the write succeeds; open() fails and the file
\* is as before; or the write fails after open(..., 'w') truncated the file.
SaveOutcomes == {"ok", "open_failed", "write_failed"}

\* The data file after save_data of d over file f.
SaveData(d, f, outcome) ==
    CASE outcome = "ok" -> [kind |-> "json", value |-> d]
      [] outcome = "open_failed" -> f
      [] outcome = "write_failed" -> [kind |-> "garbled"]

None == [kind |-> "None"]

Raised(error) == [kind |-> "raised", error |-> error]

\* ------------------------------------------------------------------ lookups

MenuLine(category, item) ==
    IF category = "pizzas"
    THEN [name |-> item.name,
          prices |-> <<item.prices.regular, item.prices.large,
                       item.prices.family>>,
          description |-> item.description]
    ELSE [name |-> item.name, price |-> item.price,
          description |-> item.description]

get_menu_by_category(d, category) ==
    IF category \notin DOMAIN d.menu
    THEN [kind |-> "no_category"]
    ELSE LET items == d.menu[category]
         IN IF items = <<>>
            THEN [kind |-> "no_items", category |-> category]
            ELSE [kind |-> "menu", category |-> category,
                  lines |-> [i \in 1..Len(items) |-> MenuLine(category, items[i])]]

check_delivery_area(d, area) ==
    LET zones == d.delivery_zones
        hits == {i \in 1..Len(zones) :
                    In(LowerOf(area), LowerOf(zones[i].area))}
    IN IF hits # {}
       THEN LET zone == zones[CHOOSE i \in hits : \A k \in hits : i <= k]
            IN [kind |-> "zone", area |-> zone.area,
                fee_text |-> IF zone.delivery_fee = 0
                             THEN "FREE" ELSE <<"RM", zone.delivery_fee>>,
                min_order |-> zone.min_order, time |-> zone.estimated_time]
       ELSE [kind |-> "call_for_area", phone |-> d.restaurant_info.phone]

\* p.get("is_active", False)
IsActive(p) == IF "is_active" \in DOMAIN p THEN p.is_active ELSE FALSE

get_active_promotions(d) ==
    LET active_promos == SelectSeq(d.promotions, IsActive)
    IN IF active_promos = <<>>
       THEN [kind |-> "no_promotions"]
       ELSE [kind |-> "deals",
             lines |-> [i \in 1..Len(active_promos) |->
                          [title |-> active_promos[i].title,
                           description |-> active_promos[i].description]]]

PopularName(d, item) ==
    LET pizzas == d.menu.pizzas
        hits == {i \in 1..Len(pizzas) : pizzas[i].id = item.item_id}
    IN IF hits = {} THEN "Unknown Item"
       ELSE pizzas[CHOOSE i \in hits : \A k \in hits : i <= k].name

\* The [:3] of get_popular_items.
PopularShown == 3

get_popular_items(d) ==
    LET popular == d.analytics.popular_items
    IN IF popular = <<>>
       THEN [kind |-> "popular_default"]
       ELSE [kind |-> "popular",
             lines |-> [i \in 1..Min(PopularShown, Len(popular)) |->
                          [name |-> PopularName(d, popular[i]),
                           order_count |-> popular[i].order_count]]]

HoursResponse(d) ==
    LET hours == d.restaurant_info.hours
    IN [kind |-> "hours",
        text |-> IF "monday" \in DOMAIN hours
                 THEN hours.monday ELSE "Please call for hours"]

PhoneResponse(d) == [kind |-> "phone", phone |-> d.restaurant_info.phone]

\* ------------------------------------------------------------ handle_query

PizzaMenuAsked(u) ==
    In("pizza", u) /\ (In("menu", u) \/ In("what", u))

SidesAsked(u) == In("side", u) \/ In("appetizer", u)

DrinksAsked(u) == In("drink", u) \/ In("beverage", u)

AreasIn(u) == {i \in 1..Len(KnownAreas) : In(KnownAreas[i], u)}

DeliveryAsked(u) == In("deliver", u) /\ AreasIn(u) # {}

PromotionsAsked(u) == \E word \in PromotionWords : In(word, u)

PopularAsked(u) == In("popular", u) \/ In("recommend", u)

HoursAsked(u) == In("hour", u) \/ In("open", u)

PhoneAsked(u) == In("phone", u) \/ In("call", u)

\* The area the loop of the delivery rule stops at: the first of KnownAreas
\* that the input contains.
FirstArea(u) == KnownAreas[CHOOSE i \in AreasIn(u) : \A k \in AreasIn(u) : i <= k]

\* A delivery rule that asks for no known area: it looks the first known area
\* up, or the whole input when there is none.
DeliveryRuleAnyArea(d, u) ==
    IF In("deliver", u)
    THEN check_delivery_area(d, IF AreasIn(u) # {} THEN FirstArea(u) ELSE u)
    ELSE None

\* The delivery rule: its response, or None when it lets the input through.
DeliveryRule(d, u) ==
    IF DeliveryAsked(u) THEN check_delivery_area(d, FirstArea(u)) ELSE None

QuestionTexts(d) == [i \in 1..Len(d.questions) |-> d.questions[i].question]

\* A loop that keeps going: the answer of the last pair whose question is the
\* match.
AnswerOfLast(d, match) ==
    LET hits == {i \in 1..Len(d.questions) : d.questions[i].question = match}
    IN [kind |-> "answer",
        text |-> d.questions[CHOOSE i \in hits : \A k \in hits : k <= i].answer]

\* The loop over the stored pairs: the answer of the first pair whose question
\* is the match.
AnswerOf(d, match) ==
    LET hits == {i \in 1..Len(d.questions) : d.questions[i].question = match}
    IN [kind |-> "answer",
        text |-> d.questions[CHOOSE i \in hits : \A k \in hits : i <= k].answer]

KnowledgeBase(d, u) ==
    LET best_match == GetCloseMatches(u, QuestionTexts(d))
    IN IF best_match # <<>> THEN AnswerOf(d, best_match[1]) ELSE None

\* The rules with promotions tested before delivery.
handle_query_promotions_first(d, user_input) ==
    LET u == LowerOf(user_input)
    IN IF PizzaMenuAsked(u) THEN get_menu_by_category(d, "pizzas")
       ELSE IF SidesAsked(u) THEN get_menu_by_category(d, "sides")
       ELSE IF DrinksAsked(u) THEN get_menu_by_category(d, "drinks")
       ELSE IF PromotionsAsked(u) THEN get_active_promotions(d)
       ELSE IF DeliveryRule(d, u) # None THEN DeliveryRule(d, u)
       ELSE IF PopularAsked(u) THEN get_popular_items(d)
       ELSE IF HoursAsked(u) THEN HoursResponse(d)
       ELSE IF PhoneAsked(u) THEN PhoneResponse(d)
       ELSE KnowledgeBase(d, u)

handle_query(d, user_input) ==
    LET u == LowerOf(user_input)
    IN IF PizzaMenuAsked(u) THEN get_menu_by_category(d, "pizzas")
       ELSE IF SidesAsked(u) THEN get_menu_by_category(d, "sides")
       ELSE IF DrinksAsked(u) THEN get_menu_by_category(d, "drinks")
       ELSE IF DeliveryRule(d, u) # None THEN DeliveryRule(d, u)
       ELSE IF PromotionsAsked(u) THEN get_active_promotions(d)
       ELSE IF PopularAsked(u) THEN get_popular_items(d)
       ELSE IF HoursAsked(u) THEN HoursResponse(d)
       ELSE IF PhoneAsked(u) THEN PhoneResponse(d)
       ELSE KnowledgeBase(d, u)

\* ------------------------------------------------------------------ writers

\* The pair learn_new_response stores (added_date, a clock reading, left out).
NewQA(question, answer) ==
    [question |-> LowerOf(question), answer |-> answer, category |-> "general"]

\* A writer that merges: a pair whose question is already stored replaces the
\* stored one.
LearnedQuestionsMerged(qs, question, answer) ==
    IF \E i \in 1..Len(qs) : qs[i].question = LowerOf(question)
    THEN [i \in 1..Len(qs) |->
            IF qs[i].question = LowerOf(question)
            THEN NewQA(question, answer) ELSE qs[i]]
    ELSE Append(qs, NewQA(question, answer))

LearnedQuestions(qs, question, answer) == Append(qs, NewQA(question, answer))

Digits == "0123456789"

RECURSIVE DecStr(_)
\* str(n) for n >= 0
DecStr(n) ==
    IF n < 10 THEN SubSeq(Digits, n + 1, n + 1)
    ELSE DecStr(n \div 10) \o SubSeq(Digits, (n % 10) + 1, (n % 10) + 1)

RECURSIVE ZeroPad(_, _)
\* f"{n:0{width}d}" given str(n)
ZeroPad(s, width) == IF Len(s) >= width THEN s ELSE ZeroPad("0" \o s, width)

\* The width of the :03d of add_customer_order.
OrderIdWidth == 3

\* f"ORD{n:03d}"
FormatOrderId(n) == "ORD" \o ZeroPad(DecStr(n), OrderIdWidth)

\* A slip in the numbering: the count of orders before the new one.
OrderIdFromZero(orders) == FormatOrderId(Len(orders))

\* f"ORD{len(self.data['orders']) + 1:03d}"
OrderId(orders) == FormatOrderId(Len(orders) + 1)

RECURSIVE SumTotals(_)
SumTotals(items) ==
    IF items = <<>> THEN 0 ELSE Head(items).total + SumTotals(Tail(items))

\* customer_info.get(key, "")
InfoGet(customer_info, key) ==
    IF key \in DOMAIN customer_info THEN customer_info[key] ELSE ""

\* The order add_customer_order records (the two clock readings left out).
NewOrder(orders, customer_info, items) ==
    [order_id |-> OrderId(orders),
     customer_name |-> InfoGet(customer_info, "name"),
     phone |-> InfoGet(customer_info, "phone"),
     address |-> InfoGet(customer_info, "address"),
     items |-> items,
     subtotal |-> SumTotals(items),
     delivery_fee |-> 0,
     status |-> "received"]

NewFeedback(order_id, rating, comment) ==
    [order_id |-> order_id, rating |-> rating, comment |-> comment]

\* ----------------------------------------------------------------- actions

Init ==
    /\ pc = "start"
    /\ data = [kind |-> "unset"]
    /\ file \in StartFiles
    /\ persisted = file
    /\ lastCall = [op |-> "none"]
    /\ response = [kind |-> "none"]
    /\ failures = 0

\* __init__ with load_data: the file is read and parsed. When it is absent
\* create_default_data calls save_data before self.data is assigned: open()
\* creates the file (or fails), then reading self.data raises AttributeError.
Construct ==
    /\ pc = "start"
    /\ lastCall' = [op |-> "__init__"]
    /\ UNCHANGED <<persisted, failures>>
    /\ \/ /\ file.kind = "json"
          /\ data' = file.value
          /\ pc' = "ready"
          /\ response' = None
          /\ UNCHANGED file
       \/ /\ file.kind = "garbled"
          /\ pc' = "crashed"
          /\ response' = Raised("JSONDecodeError")
          /\ UNCHANGED <<data, file>>
       \/ /\ file.kind = "absent"
          /\ pc' = "crashed"
          /\ \/ /\ file' = [kind |-> "garbled"]
                /\ response' = Raised("AttributeError")
             \/ /\ file' = file
                /\ response' = Raised("OSError")
          /\ UNCHANGED data

HandleQuery(user_input) ==
    /\ pc = "ready"
    /\ response' = handle_query(data, user_input)
    /\ lastCall' = [op |-> "handle_query", user_input |-> user_input]
    /\ UNCHANGED <<pc, data, file, persisted, failures>>

\* The tail shared by the writers: the changed data is in memory, then
\* save_data runs and its failure, if any, reaches the caller.
Store(d, call, returned, outcome) ==
    /\ outcome # "ok" => failures < MaxFailures
    /\ data' = d
    /\ file' = SaveData(d, file, outcome)
    /\ persisted' = IF outcome = "ok" THEN file' ELSE persisted
    /\ failures' = IF outcome = "ok" THEN failures ELSE failures + 1
    /\ response' = IF outcome = "ok" THEN returned ELSE Raised("OSError")
    /\ lastCall' = call
    /\ UNCHANGED pc

LearnNewResponse(question, answer, outcome) ==
    /\ pc = "ready"
    /\ Len(data.questions) < MaxQuestions
    /\ Store([data EXCEPT !.questions = LearnedQuestions(@, question, answer)],
             [op |-> "learn_new_response", question |-> question,
              answer |-> answer],
             None, outcome)

AddCustomerOrder(customer_info, items, outcome) ==
    /\ pc = "ready"
    /\ Len(data.orders) < MaxOrders
    /\ Store([data EXCEPT !.orders = Append(@, NewOrder(@, customer_info, items))],
             [op |-> "add_customer_order"],
             [kind |-> "order_id", id |-> OrderId(data.orders)], outcome)

AddFeedback(order_id, rating, comment, outcome) ==
    /\ pc = "ready"
    /\ Len(data.customer_feedback) < MaxFeedback
    /\ Store([data EXCEPT !.customer_feedback =
                              Append(@, NewFeedback(order_id, rating, comment))],
             [op |-> "add_feedback"],
             [kind |-> "thanks"], outcome)

\* The program with a disk that takes every write.
Next ==
    \/ Construct
    \/ \E user_input \in Inputs : HandleQuery(user_input)
    \/ \E l \in LearnInputs : LearnNewResponse(l[1], l[2], "ok")
    \/ \E o \in OrderInputs : AddCustomerOrder(o[1], o[2], "ok")
    \/ \E f \in FeedbackInputs : AddFeedback(f[1], f[2], f[3], "ok")

Spec == Init /\ [][Next]_vars

\* The program with a disk that may refuse a write.
NextIO ==
    \/ Construct
    \/ \E user_input \in Inputs : HandleQuery(user_input)
    \/ \E l \in LearnInputs, outcome \in SaveOutcomes :
          LearnNewResponse(l[1], l[2], outcome)
    \/ \E o \in OrderInputs, outcome \in SaveOutcomes :
          AddCustomerOrder(o[1], o[2], outcome)
    \/ \E f \in FeedbackInputs, outcome \in SaveOutcomes :
          AddFeedback(f[1], f[2], f[3], outcome)

SpecIO == Init /\ [][NextIO]_vars

\* -------------------------------------------------------------- properties

Ready == pc = "ready"

\* Some handle_query call was the last call and u is its lowercased input.
Queried == pc = "ready" /\ lastCall.op = "handle_query"

Learned == pc = "ready" /\ lastCall.op = "learn_new_response"

Answer(text) == [kind |-> "answer", text |-> text]

IsPrefix(s, t) == Len(s) <= Len(t) /\ SubSeq(t, 1, Len(s)) = s

\* The intent rules in the order the specification gives them.
RuleOrder ==
    <<"pizzas", "sides", "drinks", "delivery", "promotions", "popular",
      "hours", "phone">>

RuleAsked(rule, u) ==
    CASE rule = "pizzas" -> PizzaMenuAsked(u)
      [] rule = "sides" -> SidesAsked(u)
      [] rule = "drinks" -> DrinksAsked(u)
      [] rule = "delivery" -> DeliveryAsked(u)
      [] rule = "promotions" -> PromotionsAsked(u)
      [] rule = "popular" -> PopularAsked(u)
      [] rule = "hours" -> HoursAsked(u)
      [] rule = "phone" -> PhoneAsked(u)

RuleResponse(rule, d, u) ==
    CASE rule = "pizzas" -> get_menu_by_category(d, "pizzas")
      [] rule = "sides" -> get_menu_by_category(d, "sides")
      [] rule = "drinks" -> get_menu_by_category(d, "drinks")
      [] rule = "delivery" -> check_delivery_area(d, FirstArea(u))
      [] rule = "promotions" -> get_active_promotions(d)
      [] rule = "popular" -> get_popular_items(d)
      [] rule = "hours" -> HoursResponse(d)
      [] rule = "phone" -> PhoneResponse(d)

\* The places in RuleOrder of the rules whose predicate holds of u.
RulesAsked(u) == {r \in 1..Len(RuleOrder) : RuleAsked(RuleOrder[r], u)}

\* The stored pairs whose question scores at least the cutoff against u.
Clearing(d, u) ==
    {i \in 1..Len(d.questions) :
        10 * ScoreTable[<<d.questions[i].question, u>>].ratio[1]
            >= CutoffTenths * ScoreTable[<<d.questions[i].question, u>>].ratio[2]}

Score(d, i, u) == ScoreTable[<<d.questions[i].question, u>>].ratio

\* The clearing pairs of the highest score.
Best(d, u) ==
    {i \in Clearing(d, u) :
        \A k \in Clearing(d, u) : ~RatioLess(Score(d, i, u), Score(d, k, u))}

\* C1: whenever the input of a handle_query call satisfies one or more intent
\* rules, the response is that of the earliest such rule in the order pizza
\* menu, sides, drinks, delivery, promotions, popular, hours, phone.
C1_FirstRuleWins ==
    Queried =>
        LET u == LowerOf(lastCall.user_input)
        IN RulesAsked(u) # {} =>
              response = RuleResponse(RuleOrder[MinOf(RulesAsked(u))], data, u)

\* A query whose input satisfies a rule and, later in the order, another one.
C1_Witness ==
    /\ Queried
    /\ Cardinality(RulesAsked(LowerOf(lastCall.user_input))) >= 2
    /\ response.kind \in {"zone", "call_for_area"}

\* C2: handle_query returns None exactly when no intent rule holds of the
\* lowercased input and no stored question scores 0.6 or more; when a rule
\* holds the stored questions have no part in the response; when none holds
\* and some question clears 0.6 the response is the answer paired with a
\* question of the highest score; and the call never ends by raising.
C2_UnresolvedExactly ==
    Queried =>
        LET u == LowerOf(lastCall.user_input)
        IN /\ response = None <=> (RulesAsked(u) = {} /\ Clearing(data, u) = {})
           /\ RulesAsked(u) # {} =>
                 response = handle_query([data EXCEPT !.questions = <<>>],
                                         lastCall.user_input)
           /\ (RulesAsked(u) = {} /\ Clearing(data, u) # {}) =>
                 \E i \in Best(data, u) :
                    response = Answer(data.questions[i].answer)
           /\ response.kind # "raised"

\* A query no rule takes, answered from a stored question that scores 0.6
\* exactly.
C2_Witness ==
    /\ Queried
    /\ RulesAsked(LowerOf(lastCall.user_input)) = {}
    /\ response.kind = "answer"
    /\ \A i \in Clearing(data, LowerOf(lastCall.user_input)) :
          RatioEq(Score(data, i, LowerOf(lastCall.user_input)),
                  <<CutoffTenths, 10>>)

\* C3 as stated: after learn_new_response(q, a), whatever the store held,
\* handle_query(q) returns a.
C3_LearnThenHandle ==
    Learned => handle_query(data, lastCall.question) = Answer(lastCall.answer)

\* The stored pairs whose question is the lowercased q.
SameQuestion(d, q) ==
    {i \in 1..Len(d.questions) : d.questions[i].question = Lower(q)}

\* C3 amended: after learn_new_response(q, a), when no intent rule holds of
\* the lowercased q, handle_query(q) returns the answer of the earliest stored
\* pair whose question equals the lowercased q, which is a when no such pair
\* was stored before the call.
C3_LearnThenHandleEarliest ==
    (Learned /\ RulesAsked(LowerOf(lastCall.question)) = {}) =>
        /\ handle_query(data, lastCall.question) =
              Answer(data.questions[MinOf(SameQuestion(data, lastCall.question))].answer)
        /\ SameQuestion(data, lastCall.question) = {Len(data.questions)} =>
              handle_query(data, lastCall.question) = Answer(lastCall.answer)

\* A pair learned into a store that holds a similar question, not an equal one,
\* and then found again.
C3_Witness ==
    /\ Learned
    /\ RulesAsked(LowerOf(lastCall.question)) = {}
    /\ SameQuestion(data, lastCall.question) = {Len(data.questions)}
    /\ Cardinality(Clearing(data, LowerOf(lastCall.question))) >= 2
    /\ handle_query(data, lastCall.question) = Answer(lastCall.answer)

\* What handle_query does from the promotion rule on.
FromPromotions(d, u) ==
    IF PromotionsAsked(u) THEN get_active_promotions(d)
    ELSE IF PopularAsked(u) THEN get_popular_items(d)
    ELSE IF HoursAsked(u) THEN HoursResponse(d)
    ELSE IF PhoneAsked(u) THEN PhoneResponse(d)
    ELSE KnowledgeBase(d, u)

NoKnownArea(u) == \A i \in 1..Len(KnownAreas) : ~In(KnownAreas[i], u)

\* C4: for an input that contains "deliver" and none of klcc, pj, subang,
\* petaling, handle_query returns no check_delivery_area response, and, the
\* menu rules aside, its response is that of the promotion, popular, hours and
\* phone rules and then the knowledge base.
C4_NoAreaNoDelivery ==
    Queried =>
        LET u == LowerOf(lastCall.user_input)
        IN (In("deliver", u) /\ NoKnownArea(u)) =>
              /\ response.kind \notin {"zone", "call_for_area"}
              /\ ~(PizzaMenuAsked(u) \/ SidesAsked(u) \/ DrinksAsked(u)) =>
                    response = FromPromotions(data, u)

\* A delivery question with no known area that the promotion rule answers.
C4_Witness ==
    /\ Queried
    /\ In("deliver", LowerOf(lastCall.user_input))
    /\ NoKnownArea(LowerOf(lastCall.user_input))
    /\ response.kind \in {"deals", "no_promotions"}

\* Two or more distinct stored questions share the highest score against u.
Tied(d, u) ==
    \E i, k \in Best(d, u) : d.questions[i].question # d.questions[k].question

\* C5 as stated: when distinct stored questions tie for the highest score, the
\* one stored first is selected and its answer returned.
C5_TieFirstStored ==
    Queried =>
        LET u == LowerOf(lastCall.user_input)
        IN (RulesAsked(u) = {} /\ Tied(data, u)) =>
              response = Answer(data.questions[MinOf(Best(data, u))].answer)

\* The best-scoring pairs whose question no other best-scoring question
\* follows in string order.
GreatestBest(d, u) ==
    {i \in Best(d, u) :
        \A k \in Best(d, u) :
           ~LessTable[<<d.questions[i].question, d.questions[k].question>>]}

\* C5 amended: when distinct stored questions tie for the highest score, the
\* one selected is the greatest of them in string order, wherever it is
\* stored, and the answer returned is that of the first pair holding it.
C5_TieGreatestString ==
    Queried =>
        LET u == LowerOf(lastCall.user_input)
        IN (RulesAsked(u) = {} /\ Tied(data, u)) =>
              response = Answer(data.questions[MinOf(GreatestBest(data, u))].answer)

\* A tie that the question stored second wins, with another answer than the
\* first.
C5_Witness ==
    /\ Queried
    /\ RulesAsked(LowerOf(lastCall.user_input)) = {}
    /\ Tied(data, LowerOf(lastCall.user_input))
    /\ MinOf(GreatestBest(data, LowerOf(lastCall.user_input)))
          # MinOf(Best(data, LowerOf(lastCall.user_input)))
    /\ response # Answer(data.questions[
                            MinOf(Best(data, LowerOf(lastCall.user_input)))].answer)

\* C6: the questions sequence only grows at its end; only learn_new_response
\* changes it; and each learn_new_response call adds one pair: the lowercased
\* question, the given answer and the category "general", also when an equal
\* question is stored already.
C6_QuestionsAppendOnly ==
    [][(pc = "ready" /\ pc' = "ready") =>
          /\ IsPrefix(data.questions, data'.questions)
          /\ data'.questions # data.questions =>
                lastCall'.op = "learn_new_response"
          /\ lastCall'.op = "learn_new_response" =>
                data'.questions =
                   Append(data.questions,
                          [question |-> Lower(lastCall'.question),
                           answer |-> lastCall'.answer,
                           category |-> "general"])]_vars

\* A pair learned although an equal question was stored, both kept.
C6_Witness ==
    /\ Learned
    /\ Cardinality(SameQuestion(data, lastCall.question)) >= 2
    /\ Lower(lastCall.question) # lastCall.question

\* C7: between calls at most one learned pair is in memory and not in the last
\* snapshot written, and after a learn_new_response call that returns the
\* snapshot written is the store in memory.
C7_AtMostOnePending ==
    Ready =>
        /\ Len(data.questions) - Len(persisted.value.questions) <= 1
        /\ (lastCall.op = "learn_new_response" /\ response = None) =>
              persisted.value = data

\* C8: started with no data file, the constructor completes and the store is
\* the default one.
C8_AbsentFileDefaults ==
    (persisted.kind = "absent" /\ pc # "start") =>
        (pc = "ready" /\ data = DefaultData)

RequiredFields ==
    {"restaurant_info", "menu", "delivery_zones", "promotions", "orders",
     "questions", "customer_feedback", "analytics", "staff_notes"}

\* C9: the process never accepts queries with a store that lacks a required
\* field.
C9_NoMissingField ==
    Ready =>
        /\ RequiredFields \subseteq DOMAIN data
        /\ {"pizzas", "sides", "drinks"} \subseteq DOMAIN data.menu

DigitValue(c) == (CHOOSE i \in 1..Len(Digits) : SubSeq(Digits, i, i) = c) - 1

RECURSIVE ParseDec(_)
\* The number a string of digits writes.
ParseDec(s) ==
    IF Len(s) = 0 THEN 0
    ELSE 10 * ParseDec(SubSeq(s, 1, Len(s) - 1)) + DigitValue(SubSeq(s, Len(s), Len(s)))

\* id is "ORD" and then n in decimal, with zeros in front up to three digits.
IsOrderId(id, n) ==
    /\ SubSeq(id, 1, 3) = "ORD"
    /\ \A i \in 4..Len(id) : \E k \in 1..Len(Digits) : SubSeq(Digits, k, k) = SubSeq(id, i, i)
    /\ ParseDec(SubSeq(id, 4, Len(id))) = n
    /\ Len(id) >= 6
    /\ Len(id) > 6 => SubSeq(id, 4, 4) # "0"

\* The order numbers the formatting is tried on.
MaxOrderNumber == 1000

\* Every order number is written as an id that reads back as the number.
OrderIdsWellFormed ==
    \A n \in 1..MaxOrderNumber : IsOrderId(FormatOrderId(n), n)

\* C10: from a store with no orders, the N-th recorded order carries "ORD" and
\* N zero-padded to three digits, so the ids in the store are distinct and in
\* sequence.
C10_OrderIdsSequential ==
    Ready =>
        /\ \A n \in 1..Len(data.orders) : IsOrderId(data.orders[n].order_id, n)
        /\ \A m, n \in 1..Len(data.orders) :
              m # n => data.orders[m].order_id # data.orders[n].order_id
        /\ OrderIdsWellFormed
        /\ (lastCall.op = "add_customer_order" /\ response.kind # "raised") =>
              response = [kind |-> "order_id",
                          id |-> data.orders[Len(data.orders)].order_id]

\* A third order recorded after two.
C10_Witness ==
    /\ Ready
    /\ lastCall.op = "add_customer_order"
    /\ Len(data.orders) >= 3
    /\ data.orders[3].order_id = "ORD003"

====
